---- MODULE Spec2Model ----
(***************************************************************************)
(* Model of the two-tier scraping pipeline of marketplace-ml:              *)
(*   - the tier-1 worker (app/workers/firecrawl_worker.py) consuming the   *)
(*     first-tier queue and forwarding failures to the fallback queue      *)
(*     (app/services/queue_service.py);                                    *)
(*   - the breadth-first traversal of CustomCrawler.crawl_website          *)
(*     (app/services/custom_crawler.py).                                   *)
(* Two specifications share the module: SpecWorker (tier-1 worker and the  *)
(* two queues) and SpecCrawl (one crawl_website session).                  *)
(***************************************************************************)
EXTENDS Integers, Sequences, FiniteSets, TLC

VARIABLES
    \* ---- queues and tier-1 worker ----
    fcQueue,        \* first-tier queue: per job, the state of its message
    ccQueue,        \* fallback queue: the messages sent to it
    w1pc,           \* position of FirecrawlWorker.run: "idle" | "poll" | "handle" | "backoff" | an uncaught exception
    futures,        \* the list `futures` of run(): one record per received message
    polls,          \* history: batches received so far
    deliveries,     \* history: times each first-tier message was received
    processed,      \* history: times process_job returned for each job
    deletedAfter,   \* history: outcome known to run() when it deleted the message
    crashed,        \* history: the worker has crashed with a batch in hand
    threadpool_size, \* self.threadpool_size, the configured pool size
    \* ---- one crawl_website session ----
    website,        \* argument: the root URL
    max_pages,      \* self.max_pages
    respect_robots_txt, \* self.respect_robots_txt
    disallowed_paths,   \* result of get_robots_txt_rules (or [])
    site,           \* the web site: hrefs in each page's content
    storage,        \* the content store during the session: "ok", or which writes fail
    company_name,   \* argument: the company name of the job
    job_id,         \* argument: the id of the job
    cpc,            \* position of crawl_website: "idle" | "loop" | "done" | "failed" | "returned"
    visited_urls,   \* local visited_urls
    to_visit,       \* local to_visit (the frontier)
    page_count,     \* local page_count
    pdf_files,      \* local pdf_files
    html_files,     \* local html_files
    markdown_files, \* local markdown_files
    results,        \* the value crawl_website returns
    fetched,        \* history: sequence of [url, kind, ok] of every fetch issued
    appended,       \* history: sequence of the URLs appended to to_visit
    rendered,       \* history: pages whose render returned content
    open_browsers,  \* number of browser sessions set up and not closed
    close_calls,    \* history: calls of close_browser on this session's browser_context
    now,            \* int(time.time()) as download_pdf reads it
    run,            \* history: 1 in the first crawl of a job, 2 in its repetition
    first_run,      \* history: what the first crawl of the job returned and was answered
    \* ---- tier-2 worker ----
    browser_available, \* the configured browser_type is supported and importable
    entry,          \* the tier-2 loop that runs: "run" (CustomCrawlerWorker.run) | "start_worker" (CustomCrawler.start_worker)
    w2pc,           \* position of CustomCrawlerWorker.run: "idle" | "poll" | "process" | "crawling" | "delete" | "backoff" | an uncaught exception
    messages2,      \* the list `messages` of run() still to be handled
    ccInflight,     \* fallback-queue messages received and not yet visible again
    ccDeleted,      \* fallback-queue messages deleted
    handled2,       \* history: the (message, success) pairs process_job returned
    \* ---- two pool threads inside FirecrawlScraper.process_website ----
    scrape_url,     \* per thread, the website of its job
    scrape_pc,      \* per thread, its position in process_website
    csv_files,      \* the output directory: per file name, the rows it holds
    csv_writers,    \* history: per file name, the threads that opened it for writing
    \* ---- text extraction ----
    html_content,   \* the text handed to the first html_to_markdown call
    extracted       \* history: what html_to_markdown returned, call after call

workerVars == <<fcQueue, ccQueue, w1pc, futures, polls, deliveries, processed,
                deletedAfter, crashed, threadpool_size>>
crawlVars == <<website, max_pages, respect_robots_txt, disallowed_paths, site, storage,
               company_name, job_id,
               cpc, visited_urls, to_visit, page_count, pdf_files, html_files,
               markdown_files, results, fetched, appended, rendered,
               open_browsers, close_calls, now, run, first_run>>
tier2Vars == <<browser_available, entry, w2pc, messages2, ccInflight, ccDeleted, handled2>>
scrapeVars == <<scrape_url, scrape_pc, csv_files, csv_writers>>
extractVars == <<html_content, extracted>>
vars == <<workerVars, crawlVars, tier2Vars, scrapeVars, extractVars>>

-----------------------------------------------------------------------------
(* Bounds of the model *)

MaxPolls == 2

\* the job ids (uuid strings in scrape_company) of the jobs submitted
Jobs == {"job-1", "job-2"}

-----------------------------------------------------------------------------
(* Generic helpers *)

Range(s) == {s[i] : i \in DOMAIN s}

\* Python truthiness of a str
Truthy(s) == s # ""

\* injective sequences over S of length 1..n
Batches(S, n) ==
    {b \in UNION {[1..k -> S] : k \in 1..n} : \A i, j \in DOMAIN b : i # j => b[i] # b[j]}

-----------------------------------------------------------------------------
(* app/main.py and app/services/queue_service.py *)

\* the job dict built by scrape_company
NewJob(j) ==
    [job_id |-> j, company_name |-> <<"acme">>, website |-> <<"https://", "a.example", "/">>,
     status |-> "pending", created_at |-> "t0"]

\* the keys a job dict can hold, in the order they are inserted
KeyOrder == <<"job_id", "company_name", "website", "status", "created_at",
              "firecrawl_failure_reason">>

\* json.dumps(job): the members of the JSON object, in insertion order
json_dumps(job) ==
    LET keys == SelectSeq(KeyOrder, LAMBDA k : k \in DOMAIN job)
    IN [i \in DOMAIN keys |-> <<keys[i], job[keys[i]]>>]

\* json.loads(body): the dict of the members of the JSON object
json_loads(text) ==
    [k \in {text[i][1] : i \in DOMAIN text} |->
        text[CHOOSE i \in DOMAIN text : text[i][1] = k /\
                \A n \in DOMAIN text : text[n][1] = k => n <= i][2]]

\* the MessageBody send_to_firecrawl_queue sends for job j, line 29
FirstTierBody(j) == json_dumps(NewJob(j))

\* json.loads(message['Body']) of the first-tier message of each job
\* (firecrawl_worker.py, line 99)
ReceivedJob == [j \in Jobs |-> json_loads(FirstTierBody(j))]

\* mutant of AnnotateJob: the message is built anew from the id and the reason
AnnotateJobRebuilds(job, failure_reason) ==
    [job_id |-> job.job_id, status |-> "firecrawl_failed",
     firecrawl_failure_reason |-> failure_reason]

\* send_to_custom_crawler_queue, lines 41-43: the job dict after annotation
AnnotateJob(job, failure_reason) ==
    IF Truthy(failure_reason)
    THEN ("firecrawl_failure_reason" :> failure_reason) @@ ("status" :> "firecrawl_failed") @@ job
    ELSE job

-----------------------------------------------------------------------------
(* app/workers/firecrawl_worker.py *)

\* the largest configured pool size (threadpool.size of the configuration)
ThreadpoolSize == 2

\* what scraper.process_website can do: return a truthy dict, return a falsy
\* value, or raise an exception whose str() is the given message
ExcMessages == {"timeout", ""}
ScrapeOutcomes ==
    {[kind |-> "returns", truthy |-> TRUE, msg |-> ""],
     [kind |-> "returns", truthy |-> FALSE, msg |-> ""]}
    \cup {[kind |-> "raises", truthy |-> FALSE, msg |-> m] : m \in ExcMessages}

\* FirecrawlWorker.process_job: the (success, result) pair
process_job(job, scrape) ==
    IF scrape.kind = "returns"
    THEN IF scrape.truthy
         THEN [success |-> TRUE, result |-> "results"]
         ELSE [success |-> FALSE, result |-> "Failed to process with Firecrawl"]
    ELSE [success |-> FALSE, result |-> scrape.msg]

\* what can be raised inside a polling loop: a transport error of the queue
\* client, or the interrupt that stops the process
TransportErrors == {"ClientError"}
LoopExceptions == TransportErrors \cup {"KeyboardInterrupt"}

\* `except Exception` catches every exception but the interrupts
IsException(e) == e # "KeyboardInterrupt"

\* run(), lines 124-126: an Exception is caught inside the loop, which sleeps
\* before it polls again; KeyboardInterrupt leaves run()
AfterRaise(e) == IF IsException(e) THEN "backoff" ELSE e

InitWorker ==
    /\ fcQueue = [j \in Jobs |-> "absent"]
    /\ ccQueue = {}
    /\ w1pc = "poll"
    /\ futures = <<>>
    /\ polls = 0
    /\ deliveries = [j \in Jobs |-> 0]
    /\ processed = [j \in Jobs |-> 0]
    /\ deletedAfter = [j \in Jobs |-> "none"]
    /\ crashed = FALSE
    /\ threadpool_size \in 1..ThreadpoolSize

\* scrape_company: the job is sent to the first-tier queue
Submit(j) ==
    /\ fcQueue[j] = "absent"
    /\ fcQueue' = [fcQueue EXCEPT ![j] = "visible"]
    /\ UNCHANGED <<crawlVars, tier2Vars, scrapeVars, extractVars, threadpool_size, ccQueue, w1pc, futures, polls, deliveries, processed,
                   deletedAfter, crashed>>

\* run(), lines 79-103: receive_message returns a non-empty batch of at most
\* threadpool_size messages; every message is submitted to the thread pool
ReceiveMessages ==
    /\ w1pc = "poll"
    /\ polls < MaxPolls
    /\ \E b \in Batches({j \in Jobs : fcQueue[j] = "visible"}, threadpool_size) :
        /\ fcQueue' = [j \in Jobs |-> IF j \in Range(b) THEN "inflight" ELSE fcQueue[j]]
        /\ deliveries' = [j \in Jobs |-> IF j \in Range(b) THEN deliveries[j] + 1 ELSE deliveries[j]]
        /\ futures' = [i \in DOMAIN b |->
                         [receipt_handle |-> b[i], job |-> ReceivedJob[b[i]],
                          done |-> FALSE, success |-> FALSE, result |-> "",
                          forwarded |-> FALSE]]
        /\ w1pc' = "handle"
    /\ polls' = polls + 1
    /\ UNCHANGED <<crawlVars, tier2Vars, scrapeVars, extractVars, threadpool_size, ccQueue, processed, deletedAfter, crashed>>

\* run(), lines 79-84 and 124-126: receive_message raises, or the process
\* is interrupted while it waits
ReceiveRaises(e) ==
    /\ w1pc = "poll"
    /\ w1pc' = AfterRaise(e)
    /\ UNCHANGED <<crawlVars, tier2Vars, scrapeVars, extractVars, threadpool_size, fcQueue, ccQueue, futures, polls,
                   deliveries, processed, deletedAfter, crashed>>

\* run(), line 126: time.sleep(5) has returned and the loop polls again
Backoff ==
    /\ w1pc = "backoff"
    /\ w1pc' = "poll"
    /\ UNCHANGED <<crawlVars, tier2Vars, scrapeVars, extractVars, threadpool_size, fcQueue, ccQueue, futures, polls,
                   deliveries, processed, deletedAfter, crashed>>

\* a pool thread runs process_job for one submitted message to its end
RunProcessJob(i) ==
    /\ w1pc = "handle"
    /\ i \in DOMAIN futures
    /\ ~futures[i].done
    /\ \E scrape \in ScrapeOutcomes :
        LET r == process_job(futures[i].job, scrape) IN
        futures' = [futures EXCEPT ![i].done = TRUE, ![i].success = r.success,
                                   ![i].result = r.result]
    /\ processed' = [processed EXCEPT ![futures[i].receipt_handle] = @ + 1]
    /\ UNCHANGED <<crawlVars, tier2Vars, scrapeVars, extractVars, threadpool_size, fcQueue, ccQueue, w1pc, polls, deliveries, deletedAfter, crashed>>

\* future.result() has returned for this entry of `futures` (line 108)
ResultKnown(f) == f.done

\* a message of the fallback queue: the body as json.dumps sent it (line 48)
\* and json.loads of the tier-2 worker reads it, tagged with the first-tier
\* delivery whose handling sent it
FallbackMessage(f, body) ==
    [source |-> f.receipt_handle, delivery |-> deliveries[f.receipt_handle],
     body |-> json_loads(json_dumps(body))]

\* mutant of NeedsForward: every job is handed to the fallback queue
NeedsForwardAlways(f) == TRUE

\* run(), line 111: `if not success`
NeedsForward(f) == ~f.success

\* run(), lines 111-113: a failed job is handed to send_to_custom_crawler_queue,
\* whose send either succeeds (True) or raises inside it (False); the return
\* value is not looked at
ForwardFailure ==
    /\ w1pc = "handle"
    /\ futures # <<>>
    /\ ResultKnown(futures[1])
    /\ NeedsForward(futures[1])
    /\ ~futures[1].forwarded
    /\ LET body == AnnotateJob(futures[1].job, futures[1].result) IN
       /\ futures' = [futures EXCEPT ![1].job = body, ![1].forwarded = TRUE]
       /\ \/ ccQueue' = ccQueue \cup {FallbackMessage(futures[1], body)}
          \/ UNCHANGED ccQueue
    /\ UNCHANGED <<crawlVars, tier2Vars, scrapeVars, extractVars, threadpool_size, fcQueue, w1pc, polls, deliveries, processed, deletedAfter, crashed>>

\* mutant of DeleteReady: the delete does not wait for future.result()
DeleteWithoutResult(f) == TRUE

\* run(), lines 108-116: the delete is reached once the result has been
\* awaited and, for a failure, handed on
DeleteReady(f) == ResultKnown(f) /\ (f.success \/ f.forwarded)

\* mutant of NextPosition: the worker polls again after the first future
NextPositionPollsEarly(rest) == "poll"

\* run(), lines 106 and 76: the loop over `futures` goes on to the next
\* entry; after the last one the worker polls again
NextPosition(rest) == IF rest = <<>> THEN "poll" ELSE "handle"

\* run(), lines 115-119: delete_message succeeds and the loop moves to the
\* next future
DeleteMessage ==
    /\ w1pc = "handle"
    /\ futures # <<>>
    /\ DeleteReady(futures[1])
    /\ LET j == futures[1].receipt_handle IN
       /\ fcQueue' = [fcQueue EXCEPT ![j] = "deleted"]
       /\ deletedAfter' = [deletedAfter EXCEPT ![j] =
                IF ~futures[1].done THEN "unknown"
                ELSE IF futures[1].success THEN "success" ELSE "failure"]
    /\ futures' = Tail(futures)
    /\ w1pc' = NextPosition(Tail(futures))
    /\ UNCHANGED <<crawlVars, tier2Vars, scrapeVars, extractVars, threadpool_size, ccQueue, polls, deliveries, processed, crashed>>

\* mutant of RemainingAfterRaise: the exception leaves the loop over `futures`
RemainingAfterRaiseNone(rest) == <<>>

\* run(), lines 106-107 and 121-122: the try statement is inside the loop
\* over `futures`, so the entries after the one that raised are still handled
RemainingAfterRaise(rest) == rest

\* run(), lines 115-122: delete_message raises; the exception is caught by
\* the handler inside the loop over `futures`, which logs it and moves to
\* the next future without sleeping
DeleteRaises ==
    /\ w1pc = "handle"
    /\ futures # <<>>
    /\ DeleteReady(futures[1])
    /\ futures' = RemainingAfterRaise(Tail(futures))
    /\ w1pc' = NextPosition(RemainingAfterRaise(Tail(futures)))
    /\ UNCHANGED <<crawlVars, tier2Vars, scrapeVars, extractVars, threadpool_size, fcQueue, ccQueue, polls, deliveries,
                   processed, deletedAfter, crashed>>

\* the worker process dies and is restarted: its batch is lost
Crash ==
    /\ w1pc = "handle"
    /\ crashed' = TRUE
    /\ futures' = <<>>
    /\ w1pc' = "poll"
    /\ UNCHANGED <<crawlVars, tier2Vars, scrapeVars, extractVars, threadpool_size, fcQueue, ccQueue, polls, deliveries, processed, deletedAfter>>

\* the queue's visibility timeout: a received message nobody holds and
\* nobody deleted becomes visible again
VisibilityTimeout(j) ==
    /\ fcQueue[j] = "inflight"
    /\ \A i \in DOMAIN futures : futures[i].receipt_handle # j
    /\ fcQueue' = [fcQueue EXCEPT ![j] = "visible"]
    /\ UNCHANGED <<crawlVars, tier2Vars, scrapeVars, extractVars, threadpool_size, ccQueue, w1pc, futures, polls, deliveries, processed,
                   deletedAfter, crashed>>

NextWorker ==
    \/ \E j \in Jobs : Submit(j)
    \/ ReceiveMessages
    \/ \E e \in LoopExceptions : ReceiveRaises(e)
    \/ Backoff
    \/ \E i \in 1..ThreadpoolSize : RunProcessJob(i)
    \/ ForwardFailure
    \/ DeleteMessage
    \/ DeleteRaises
    \/ Crash
    \/ \E j \in Jobs : VisibilityTimeout(j)

-----------------------------------------------------------------------------
(* URLs.  A URL string is modelled as the sequence of its lexical pieces:   *)
(* <<scheme, netloc, path pieces..., optional "?"/"#" and what follows>>.   *)
(* String tests of the code (prefix, suffix, equality) act on the pieces.   *)

R  == <<"https://", "a.example", "/">>
X  == <<"https://", "a.example", "/", "x">>
Y  == <<"https://", "a.example", "/", "y">>
U  == <<"https://", "a.example", "/", "u">>
V  == <<"https://", "a.example", "/", "v">>
W  == <<"https://", "a.example", "/", "w">>
Z  == <<"https://", "other.example", "/", "z">>
PR == <<"https://", "a.example", "/", "private", "/", "report">>
SD == <<"https://", "a.example", "/", "spec", ".pdf">>
OD == <<"https://", "other.example", "/", "doc", ".PDF">>
\* other spellings of page x: with a fragment, with a query, with a trailing slash
XF == <<"https://", "a.example", "/", "x", "#", "top">>
XQ == <<"https://", "a.example", "/", "x", "?", "p=2">>
XS == <<"https://", "a.example", "/", "x", "/">>
\* a document served by a query, in upper case: "https://a.example/?f=spec.PDF"
DQ == <<"https://", "a.example", "/", "?", "f=spec", ".PDF">>

URLs == {R, X, Y, U, V, W, Z, PR, SD, OD, XF, XQ, XS, DQ}

\* str.lower() on one piece
Lower(t) == IF t = ".PDF" THEN ".pdf" ELSE t

\* s.startswith(prefix)
StartsWith(s, prefix) ==
    Len(prefix) <= Len(s) /\ SubSeq(s, 1, Len(prefix)) = prefix

\* mutant of EndsWithPdf: the URL is not lower-cased before the test
EndsWithPdfCaseSensitive(s) == s # <<>> /\ s[Len(s)] = ".pdf"

\* s.lower().endswith('.pdf')
EndsWithPdf(s) == s # <<>> /\ Lower(s[Len(s)]) = ".pdf"

\* urlparse(url).netloc
Netloc(url) == IF Len(url) >= 2 THEN url[2] ELSE ""

\* urlparse(url).path: from after the netloc up to the query or fragment
RECURSIVE PathPieces(_)
PathPieces(s) ==
    IF s = <<>> \/ Head(s) \in {"?", "#"} THEN <<>>
    ELSE <<Head(s)>> \o PathPieces(Tail(s))

PathOf(url) == IF Len(url) >= 2 THEN PathPieces(SubSeq(url, 3, Len(url))) ELSE <<>>

\* urljoin(base_url, href) for an absolute href or a root-relative one
UrlJoin(base_url, href) ==
    IF href # <<>> /\ href[1] = "https://" THEN href
    ELSE IF href # <<>> /\ href[1] = "/" THEN <<base_url[1], base_url[2]>> \o href
    ELSE base_url

-----------------------------------------------------------------------------
(* app/services/custom_crawler.py: pure helpers *)

\* mutant of is_allowed_url: the path is compared for equality, not by prefix
is_allowed_url_exact(url, respect, disallowed) ==
    IF ~respect \/ disallowed = <<>> THEN TRUE
    ELSE \A i \in DOMAIN disallowed : PathOf(url) # disallowed[i]

\* is_allowed_url
is_allowed_url(url, respect, disallowed) ==
    IF ~respect \/ disallowed = <<>> THEN TRUE
    ELSE \A i \in DOMAIN disallowed : ~StartsWith(PathOf(url), disallowed[i])

\* is_same_domain
is_same_domain(url, base_domain) == Netloc(url) = base_domain

RECURSIVE JoinAll(_, _)
JoinAll(hrefs, base_url) ==
    IF hrefs = <<>> THEN <<>>
    ELSE <<UrlJoin(base_url, Head(hrefs))>> \o JoinAll(Tail(hrefs), base_url)

\* extract_links: every href, then once more every href ending in .pdf
extract_links(content, base_url) ==
    JoinAll(content, base_url) \o JoinAll(SelectSeq(content, EndsWithPdf), base_url)

\* mutant of FrontierAdd: the link is put at the front (to_visit.insert(0, link))
FrontierAddFront(tv, link) == <<link>> \o tv

\* to_visit.append(link), line 363
FrontierAdd(tv, link) == Append(tv, link)

\* mutant of ShouldEnqueue: the test `link not in to_visit` is missing
ShouldEnqueueNoFrontierTest(link, visited, tv, base_domain, respect, disallowed) ==
    /\ link \notin visited
    /\ Netloc(link) = base_domain
    /\ (~respect \/ disallowed = <<>>
        \/ \A i \in DOMAIN disallowed : ~StartsWith(PathOf(link), disallowed[i]))

\* the frontier test of crawl_website, lines 359-362
ShouldEnqueue(link, visited, tv, base_domain, respect, disallowed) ==
    /\ link \notin visited
    /\ link \notin Range(tv)
    /\ is_same_domain(link, base_domain)
    /\ is_allowed_url(link, respect, disallowed)

\* mutant of EnqueueLinks: the loop over links stops after the first link
EnqueueFirstLinkOnly(links, visited, tv, base_domain, respect, disallowed) ==
    IF links # <<>> /\ ShouldEnqueue(Head(links), visited, tv, base_domain, respect, disallowed)
    THEN FrontierAdd(tv, Head(links)) ELSE tv

\* the loop over links of crawl_website, lines 358-363
RECURSIVE EnqueueLinks(_, _, _, _, _, _)
EnqueueLinks(links, visited, tv, base_domain, respect, disallowed) ==
    IF links = <<>> THEN tv
    ELSE EnqueueLinks(Tail(links), visited,
            IF ShouldEnqueue(Head(links), visited, tv, base_domain, respect, disallowed)
            THEN FrontierAdd(tv, Head(links)) ELSE tv,
            base_domain, respect, disallowed)

\* the skip test of crawl_website, line 326
ShouldSkip(url, visited, respect, disallowed) ==
    url \in visited \/ ~is_allowed_url(url, respect, disallowed)

\* mutant of MarkVisited: the URL is not recorded
MarkVisitedForgets(visited, url) == visited

\* visited_urls.add(current_url), line 329
MarkVisited(visited, url) == visited \cup {url}

\* mutant of AfterNoContent: a page without content ends the traversal
AfterNoContentAborts == "failed"

\* `if not content: continue`, lines 343-344: the loop goes on
AfterNoContent == "loop"

\* mutant of LoopContinues: the budget test is off by one (<=)
LoopContinuesOffByOne(tv, count, budget) == tv # <<>> /\ count <= budget

\* mutant of LoopContinues: the page budget is not looked at
LoopContinuesNoBudget(tv, count, budget) == tv # <<>>

\* the loop condition of crawl_website, line 322
LoopContinues(tv, count, budget) == tv # <<>> /\ count < budget

\* os.path.basename of a path
RECURSIVE Basename(_)
Basename(path) ==
    IF path = <<>> THEN <<>>
    ELSE IF path[Len(path)] = "/" THEN <<>>
    ELSE Basename(SubSeq(path, 1, Len(path) - 1)) \o <<path[Len(path)]>>

\* path.strip('/')
RECURSIVE StripSlashes(_)
StripSlashes(path) ==
    IF path = <<>> THEN <<>>
    ELSE IF Head(path) = "/" THEN StripSlashes(Tail(path))
    ELSE IF path[Len(path)] = "/" THEN StripSlashes(SubSeq(path, 1, Len(path) - 1))
    ELSE path

\* re.sub(r'[^\w\-_.]', '_', path): of the pieces used here only "/" is replaced
Sanitize(path) == [i \in DOMAIN path |-> IF path[i] = "/" THEN "_" ELSE path[i]]

\* f"{company_name}_{job_id}"
CompanyFolder(company, job) == company \o <<"_", job>>

\* str(n) for the clock values of the model
TimeStamp(n) == IF n = 0 THEN "1700000000" ELSE "1700000001"

\* the position of the first "/" of a string, 0 if it has none
FirstSlash(s) ==
    IF \E i \in DOMAIN s : s[i] = "/"
    THEN CHOOSE i \in DOMAIN s : s[i] = "/" /\ \A k \in 1..(i - 1) : s[k] # "/"
    ELSE 0

\* the directory names a relative or absolute path string goes through
RECURSIVE Components(_)
Components(s) ==
    IF s = <<>> THEN <<>>
    ELSE IF FirstSlash(s) = 0 THEN <<s>>
    ELSE (IF FirstSlash(s) = 1 THEN <<>> ELSE <<SubSeq(s, 1, FirstSlash(s) - 1)>>)
         \o Components(SubSeq(s, FirstSlash(s) + 1, Len(s)))

\* os.path.join(root, s) for a storage root: an absolute s discards the root
path_join(root, s) ==
    [absolute |-> s # <<>> /\ s[1] = "/",
     dirs |-> (IF s # <<>> /\ s[1] = "/" THEN <<>> ELSE << <<root>> >>) \o Components(s)]

\* the directory a written file lies in: os.path.join(root, folder)
DirectoryOf(p) == path_join(p.root, p.folder)

\* Path(p).parent.name
ParentName(p) ==
    LET dirs == DirectoryOf(p).dirs IN IF dirs = <<>> THEN <<>> ELSE dirs[Len(dirs)]

\* the path download_pdf writes, lines 199-204
PdfPath(url, company, job) ==
    [root |-> "pdf_folder", folder |-> CompanyFolder(company, job),
     name |-> IF Basename(PathOf(url)) # <<>> THEN Basename(PathOf(url))
              ELSE <<"document_", TimeStamp(now), ".pdf">>]

\* the path save_html writes, lines 222-233
HtmlPath(url, company, job) ==
    [root |-> "html_folder", folder |-> CompanyFolder(company, job),
     name |-> Sanitize(IF StripSlashes(PathOf(url)) = <<>> THEN <<"index">>
                       ELSE StripSlashes(PathOf(url))) \o <<".html">>]

\* the path convert_html_to_markdown writes, lines 263-268
MarkdownPath(html_path) ==
    [root |-> "markdown_folder", folder |-> ParentName(html_path),
     name |-> SubSeq(html_path.name, 1, Len(html_path.name) - 1) \o <<".md">>]

-----------------------------------------------------------------------------
(* Web sites: the hrefs found in the content of each page, in page order *)

MaxBudget == 6
MaxLinks == 2
MaxSmallBudget == 3

NoLinks == [u \in URLs |-> <<>>]

\* root linking to two pages of its domain and one page of another domain
SiteScenarioA == [NoLinks EXCEPT ![R] = <<X, Y, Z>>]

\* self-links and cycles
SiteCycle == [NoLinks EXCEPT ![R] = <<R, X>>, ![X] = <<R, X, Y>>, ![Y] = <<X>>]

\* the same link several times on one page and on several pages
SiteDuplicates == [NoLinks EXCEPT ![R] = <<X, X, Y>>, ![X] = <<Y, R, Y>>, ![Y] = <<X, Y>>]

\* documents of the root's domain and of another domain
SiteDocuments == [NoLinks EXCEPT ![R] = <<SD, OD, X>>, ![X] = <<OD, Z, SD>>]

\* a page under /private/ discovered first, last, and from several pages
SitePrivate == [NoLinks EXCEPT ![R] = <<PR, X>>, ![X] = <<Y, PR>>, ![Y] = <<PR, R>>,
                               ![PR] = <<X, Y>>]

\* w is two links away from the root through x and four links away through y
SiteDetour == [NoLinks EXCEPT ![R] = <<X, Y>>, ![X] = <<W>>, ![Y] = <<U>>,
                              ![U] = <<V>>, ![V] = <<W>>]

\* a root page linking to a document of its domain and to itself
SiteBrochure == [NoLinks EXCEPT ![R] = <<SD, R>>]

\* a root page linking to page x under four spellings and to a document
\* served by a query
SiteSpellings == [NoLinks EXCEPT ![R] = <<X, XF, XQ, XS, DQ>>]

\* a root page linking to a document served by a query and to page x
SiteDownloads == [NoLinks EXCEPT ![R] = <<DQ, X>>]

\* every site whose root page and page x hold at most MaxLinks hrefs
SmallURLs == {R, X, PR}
LinkLists == UNION {[1..k -> SmallURLs] : k \in 0..MaxLinks}
SmallSites == {[NoLinks EXCEPT ![R] = lr, ![X] = lx] : lr \in LinkLists, lx \in LinkLists}

NamedSites == {SiteScenarioA, SiteCycle, SiteDuplicates, SiteDocuments, SitePrivate, SiteDetour}

PrivatePrefix == <<"/", "private", "/">>

\* (respect_robots_txt, disallowed_paths) as crawl_website lines 304-306 leave them
RobotsOff == <<FALSE, <<>>>>
RobotsNoRules == <<TRUE, <<>>>>
RobotsPrivate == <<TRUE, <<PrivatePrefix>>>>
\* "Disallow: /"
RobotsAll == <<TRUE, << <<"/">> >> >>

\* the company name and job id of a job: request.company_name is any
\* non-empty string, job_id a uuid4
CompanyName == <<"acme">>
JobId == "j1"
CompanyNames == {CompanyName, <<"acme", "/", "eu">>, <<"/", "acme">>}

\* the crawls explored: every named site from either root with every budget
\* up to MaxBudget, every small site from the root with every budget up to
\* MaxSmallBudget, and the site of the URL spellings under every company name
CrawlInputs ==
    [website : {R, PR}, max_pages : 0..MaxBudget, site : NamedSites,
     robots : {RobotsOff, RobotsNoRules, RobotsPrivate},
     company_name : {CompanyName}, job_id : {JobId}]
    \cup [website : {R}, max_pages : 0..MaxSmallBudget, site : SmallSites,
          robots : {RobotsOff, RobotsPrivate},
          company_name : {CompanyName}, job_id : {JobId}]
    \cup [website : {R}, max_pages : {MaxBudget}, site : {SiteSpellings},
          robots : {RobotsOff}, company_name : CompanyNames, job_id : {JobId}]

\* the jobs whose session is followed to its end
TerminationInputs ==
    [website : {R}, max_pages : 0..MaxSmallBudget, site : NamedSites,
     robots : {RobotsOff, RobotsPrivate, RobotsAll},
     company_name : {CompanyName}, job_id : {JobId}]

\* the jobs that are executed twice
RerunInputs ==
    [website : {R}, max_pages : 1..MaxSmallBudget, site : {SiteDownloads, SiteDocuments},
     robots : {RobotsOff, RobotsAll}, company_name : {CompanyName}, job_id : {JobId}]

\* the content store during one session: every write succeeds, save_html
\* fails (returns None), or convert_html_to_markdown fails (returns None)
StorageConditions == {"ok", "html_fails", "markdown_fails"}

-----------------------------------------------------------------------------
(* CustomCrawler.crawl_website *)

\* no earlier crawl of the job
NoRun == [results |-> [success |-> FALSE], answers |-> <<>>]

\* crawl_website has not been called
CrawlNotCalled ==
    /\ cpc = "idle"
    /\ visited_urls = {}
    /\ to_visit = <<>>
    /\ page_count = 0
    /\ pdf_files = <<>>
    /\ html_files = <<>>
    /\ markdown_files = <<>>
    /\ results = [success |-> FALSE]
    /\ fetched = <<>>
    /\ appended = <<>>
    /\ rendered = {}
    /\ open_browsers = 0
    /\ close_calls = 0
    /\ now = 0
    /\ run = 1
    /\ first_run = NoRun

\* no crawl session (used by SpecWorker)
CrawlIdle ==
    /\ website = R
    /\ max_pages = 0
    /\ respect_robots_txt = FALSE
    /\ disallowed_paths = <<>>
    /\ site = NoLinks
    /\ storage = "ok"
    /\ company_name = CompanyName
    /\ job_id = JobId
    /\ CrawlNotCalled

\* crawl_website after lines 299-320: browser set up, locals initialised
InitCrawlWith(inputs) ==
    /\ \E inp \in inputs :
        /\ website = inp.website
        /\ max_pages = inp.max_pages
        /\ site = inp.site
        /\ respect_robots_txt = inp.robots[1]
        /\ disallowed_paths = inp.robots[2]
        /\ company_name = inp.company_name
        /\ job_id = inp.job_id
    /\ storage \in StorageConditions
    /\ cpc = "loop"
    /\ visited_urls = {}
    /\ to_visit = <<website>>
    /\ page_count = 0
    /\ pdf_files = <<>>
    /\ html_files = <<>>
    /\ markdown_files = <<>>
    /\ results = [success |-> FALSE]
    /\ fetched = <<>>
    /\ appended = <<>>
    /\ rendered = {}
    /\ open_browsers = 1
    /\ close_calls = 0
    /\ now = 0
    /\ run = 1
    /\ first_run = NoRun

InitCrawl == InitCrawlWith(CrawlInputs)

base_domain == Netloc(website)
current_url == to_visit[1]

CrawlConfig == <<website, max_pages, respect_robots_txt, disallowed_paths, site, storage,
                 company_name, job_id>>

\* the clock and the record of the job's first crawl
RunHistory == <<now, run, first_run>>

\* the browser_context of the session and the calls that closed it
BrowserSession == <<open_browsers, close_calls>>

\* what requests.get(url, timeout=30) of download_pdf can do: return a
\* response with a status code and a Content-Type header, or raise
DownloadResponses ==
    {[kind |-> "response", status_code |-> 200, content_type |-> "application/pdf"],
     [kind |-> "response", status_code |-> 200, content_type |-> "application/pdf; charset=binary"],
     [kind |-> "response", status_code |-> 200, content_type |-> "text/html"],
     [kind |-> "response", status_code |-> 404, content_type |-> "application/pdf"],
     [kind |-> "raises", status_code |-> 0, content_type |-> ""]}

\* 'application/pdf' in response.headers.get('Content-Type', '')
ContainsPdfType(content_type) ==
    content_type \in {"application/pdf", "application/pdf; charset=binary"}

\* mutant of ResponseAccepted: the Content-Type header is not looked at
ResponseAcceptedAnyType(response) ==
    response.kind = "response" /\ response.status_code = 200

\* the test of download_pdf, line 197
ResponseAccepted(response) ==
    /\ response.kind = "response"
    /\ response.status_code = 200
    /\ ContainsPdfType(response.content_type)

\* download_pdf returns a path (not None): the response was accepted and
\* makedirs, open and write (lines 199-207) did not raise
download_pdf(response, written) == ResponseAccepted(response) /\ written

\* one turn of the loop that pops a URL and skips it (lines 323-327)
SkipUrl ==
    /\ cpc = "loop"
    /\ LoopContinues(to_visit, page_count, max_pages)
    /\ ShouldSkip(current_url, visited_urls, respect_robots_txt, disallowed_paths)
    /\ to_visit' = Tail(to_visit)
    /\ UNCHANGED <<workerVars, tier2Vars, scrapeVars, extractVars, CrawlConfig, RunHistory, BrowserSession, cpc, visited_urls, page_count, pdf_files, html_files,
                   markdown_files, results, fetched, appended, rendered>>

\* one turn of the loop for a document URL (lines 323-339); download_pdf
\* returns the written path or None
VisitPdf ==
    /\ cpc = "loop"
    /\ LoopContinues(to_visit, page_count, max_pages)
    /\ ~ShouldSkip(current_url, visited_urls, respect_robots_txt, disallowed_paths)
    /\ EndsWithPdf(current_url)
    /\ to_visit' = Tail(to_visit)
    /\ visited_urls' = MarkVisited(visited_urls, current_url)
    /\ page_count' = page_count + 1
    /\ \E response \in DownloadResponses :
       \E written \in IF ResponseAccepted(response) THEN BOOLEAN ELSE {FALSE} :
        LET ok == download_pdf(response, written) IN
        /\ fetched' = Append(fetched, [url |-> current_url, kind |-> "document", ok |-> ok,
                                       response |-> response, written |-> written])
        /\ pdf_files' = IF ok THEN Append(pdf_files, PdfPath(current_url, company_name, job_id))
                        ELSE pdf_files
    /\ UNCHANGED <<workerVars, tier2Vars, scrapeVars, extractVars, CrawlConfig, RunHistory, BrowserSession, cpc, html_files, markdown_files, results, appended, rendered>>

\* one turn of the loop for a page whose render returns no content (lines 323-344)
VisitPageNoContent ==
    /\ cpc = "loop"
    /\ LoopContinues(to_visit, page_count, max_pages)
    /\ ~ShouldSkip(current_url, visited_urls, respect_robots_txt, disallowed_paths)
    /\ ~EndsWithPdf(current_url)
    /\ to_visit' = Tail(to_visit)
    /\ visited_urls' = MarkVisited(visited_urls, current_url)
    /\ page_count' = page_count + 1
    /\ fetched' = Append(fetched, [url |-> current_url, kind |-> "page", ok |-> FALSE])
    /\ cpc' = AfterNoContent
    /\ UNCHANGED <<workerVars, tier2Vars, scrapeVars, extractVars, CrawlConfig, RunHistory, BrowserSession, pdf_files, html_files, markdown_files, results,
                   appended, rendered>>

\* the artifacts of one rendered page (lines 346-354): save_html and
\* convert_html_to_markdown each return a path or None
SavedHtml(saved) ==
    IF saved THEN Append(html_files, HtmlPath(current_url, company_name, job_id))
    ELSE html_files

SavedMarkdown(saved, converted) ==
    IF saved /\ converted
    THEN Append(markdown_files, MarkdownPath(HtmlPath(current_url, company_name, job_id)))
    ELSE markdown_files

\* one turn of the loop for a rendered page (lines 323-363)
VisitPage ==
    /\ cpc = "loop"
    /\ LoopContinues(to_visit, page_count, max_pages)
    /\ ~ShouldSkip(current_url, visited_urls, respect_robots_txt, disallowed_paths)
    /\ ~EndsWithPdf(current_url)
    /\ visited_urls' = MarkVisited(visited_urls, current_url)
    /\ page_count' = page_count + 1
    /\ fetched' = Append(fetched, [url |-> current_url, kind |-> "page", ok |-> TRUE])
    /\ rendered' = rendered \cup {current_url}
    /\ html_files' = SavedHtml(storage # "html_fails")
    /\ markdown_files' = SavedMarkdown(storage # "html_fails", storage = "ok")
    /\ LET links == extract_links(site[current_url], current_url)
           tv == EnqueueLinks(links, visited_urls', Tail(to_visit), base_domain,
                              respect_robots_txt, disallowed_paths)
       IN /\ to_visit' = tv
          /\ appended' = appended \o SubSeq(tv, Len(to_visit), Len(tv))
    /\ UNCHANGED <<workerVars, tier2Vars, scrapeVars, extractVars, CrawlConfig, RunHistory, BrowserSession, cpc, pdf_files, results>>

\* one turn of the loop in which a step after the render raises (line 381):
\* the crawl returns (False, message)
VisitPageRaises ==
    /\ cpc = "loop"
    /\ LoopContinues(to_visit, page_count, max_pages)
    /\ ~ShouldSkip(current_url, visited_urls, respect_robots_txt, disallowed_paths)
    /\ ~EndsWithPdf(current_url)
    /\ to_visit' = Tail(to_visit)
    /\ visited_urls' = MarkVisited(visited_urls, current_url)
    /\ page_count' = page_count + 1
    /\ fetched' = Append(fetched, [url |-> current_url, kind |-> "page", ok |-> TRUE])
    /\ rendered' = rendered \cup {current_url}
    /\ results' = [success |-> FALSE]
    /\ cpc' = "failed"
    /\ UNCHANGED <<workerVars, tier2Vars, scrapeVars, extractVars, CrawlConfig, RunHistory, BrowserSession, pdf_files, html_files, markdown_files, appended>>

\* the loop has ended: the results dict is returned (lines 366-379)
FinishCrawl ==
    /\ cpc = "loop"
    /\ ~LoopContinues(to_visit, page_count, max_pages)
    /\ results' = [success |-> TRUE, company_name |-> company_name, job_id |-> job_id,
                   website |-> website, pages_crawled |-> Cardinality(visited_urls),
                   pdf_files |-> pdf_files, html_files |-> html_files,
                   markdown_files |-> markdown_files]
    /\ cpc' = "done"
    /\ UNCHANGED <<workerVars, tier2Vars, scrapeVars, extractVars, CrawlConfig, RunHistory, BrowserSession, visited_urls, to_visit, page_count, pdf_files,
                   html_files, markdown_files, fetched, appended, rendered>>

\* mutant of RunsFinally: the browser is closed on the normal exit only
RunsOnNormalExitOnly(pc) == pc = "done"

\* mutant of RunsFinally: the browser is closed on no exit
RunsOnNoExit(pc) == FALSE

\* the finally clause (line 384) runs on the return of the try block and on
\* the return of the except block
RunsFinally(pc) == pc \in {"done", "failed"}

\* lines 384-386: close_browser, then crawl_website returns `results`
Finally ==
    /\ cpc \in {"done", "failed"}
    /\ open_browsers' = IF RunsFinally(cpc) THEN open_browsers - 1 ELSE open_browsers
    /\ close_calls' = IF RunsFinally(cpc) THEN close_calls + 1 ELSE close_calls
    /\ cpc' = "returned"
    /\ UNCHANGED <<workerVars, tier2Vars, scrapeVars, extractVars, CrawlConfig, RunHistory, visited_urls, to_visit,
                   page_count, pdf_files, html_files, markdown_files, results, fetched,
                   appended, rendered>>

\* the job is executed again (its message was redelivered): crawl_website
\* is called with the same arguments and starts again from lines 309-320,
\* at the same second or later
Rerun ==
    /\ cpc = "returned"
    /\ run = 1
    /\ first_run' = [results |-> results, answers |-> fetched]
    /\ run' = 2
    /\ now' \in {now, now + 1}
    /\ cpc' = "loop"
    /\ visited_urls' = {}
    /\ to_visit' = <<website>>
    /\ page_count' = 0
    /\ pdf_files' = <<>>
    /\ html_files' = <<>>
    /\ markdown_files' = <<>>
    /\ results' = [success |-> FALSE]
    /\ fetched' = <<>>
    /\ appended' = <<>>
    /\ rendered' = {}
    /\ open_browsers' = open_browsers + 1
    /\ close_calls' = 0
    /\ UNCHANGED <<workerVars, tier2Vars, scrapeVars, extractVars, CrawlConfig>>

NextCrawl ==
    \/ SkipUrl
    \/ VisitPdf
    \/ VisitPageNoContent
    \/ VisitPage
    \/ VisitPageRaises
    \/ FinishCrawl
    \/ Finally

-----------------------------------------------------------------------------
(* app/workers/custom_worker.py: CustomCrawlerWorker *)

\* mutant of MaxNumberOfMessages: the tier-2 receive asks for a batch of the
\* size of the tier-1 pool
BatchOfPoolSize == ThreadpoolSize

\* MaxNumberOfMessages of the tier-2 receive_message call (line 82)
MaxNumberOfMessages == 1

\* the crawler configurations the tier-2 worker is run with
WorkerCrawlConfigs ==
    [max_pages : {2}, site : {SiteBrochure}, robots : {RobotsOff, RobotsAll}, storage : {"ok"}]

\* no tier-2 worker running (used by SpecWorker and SpecCrawl)
Tier2Idle ==
    /\ browser_available = TRUE
    /\ entry = "run"
    /\ w2pc = "idle"
    /\ messages2 = <<>>
    /\ ccInflight = {}
    /\ ccDeleted = {}
    /\ handled2 = {}

\* the constructor has returned and the loop of one of the entry points is
\* at its first poll; the constructors do not look at the browser backend
InitTier2With(entries) ==
    /\ browser_available \in BOOLEAN
    /\ entry \in entries
    /\ w2pc = "poll"
    /\ messages2 = <<>>
    /\ ccInflight = {}
    /\ ccDeleted = {}
    /\ handled2 = {}
    /\ \E c \in WorkerCrawlConfigs :
        /\ max_pages = c.max_pages
        /\ site = c.site
        /\ respect_robots_txt = c.robots[1]
        /\ disallowed_paths = c.robots[2]
        /\ storage = c.storage
    /\ website = R
    /\ company_name = CompanyName
    /\ job_id = JobId
    /\ CrawlNotCalled

\* CustomCrawlerWorker.__init__ has returned and run() is at its first poll
InitTier2 == InitTier2With({"run"})

\* the messages of the fallback queue a receive_message call can return
ccVisible == ccQueue \ (ccInflight \cup ccDeleted)

\* mutant of AfterRaise2: nothing is caught inside the loop
AfterRaise2Propagates(e) == e

\* run(), lines 113-119: an Exception is caught inside the loop, which sleeps
\* before it polls again; KeyboardInterrupt ends run()
AfterRaise2(e) == IF IsException(e) THEN "backoff" ELSE e

\* run(), lines 80-94: receive_message returns a non-empty batch
ReceiveMessages2 ==
    /\ w2pc = "poll"
    /\ \E b \in Batches(ccVisible, MaxNumberOfMessages) :
        /\ messages2' = b
        /\ ccInflight' = ccInflight \cup Range(b)
    /\ w2pc' = "process"
    /\ UNCHANGED <<workerVars, crawlVars, scrapeVars, extractVars, browser_available, entry, ccDeleted, handled2>>

\* run(), lines 87-92: receive_message returns no message
ReceiveNothing2 ==
    /\ w2pc = "poll"
    /\ ccVisible = {}
    /\ UNCHANGED vars

\* run(), lines 80-85 and 113-119: receive_message raises, or the process is
\* interrupted while it waits
ReceiveRaises2(e) ==
    /\ w2pc = "poll"
    /\ w2pc' = AfterRaise2(e)
    /\ UNCHANGED <<workerVars, crawlVars, scrapeVars, extractVars, browser_available, entry, messages2,
                   ccInflight, ccDeleted, handled2>>

\* run(), line 115: time.sleep(5) has returned and the loop polls again
Backoff2 ==
    /\ w2pc = "backoff"
    /\ w2pc' = "poll"
    /\ UNCHANGED <<workerVars, crawlVars, scrapeVars, extractVars, browser_available, entry, messages2,
                   ccInflight, ccDeleted, handled2>>

\* process_job, lines 55-68, with crawl_website lines 299-309: setup_browser
\* raises ValueError, which leaves crawl_website and is caught by process_job
SetupBrowserRaises ==
    /\ entry = "run"
    /\ w2pc = "process"
    /\ ~browser_available
    /\ handled2' = handled2 \cup {[message |-> messages2[1], success |-> FALSE,
                                    cause |-> "setup_browser"]}
    /\ w2pc' = "delete"
    /\ UNCHANGED <<workerVars, crawlVars, scrapeVars, extractVars, browser_available, entry, messages2,
                   ccInflight, ccDeleted>>

\* CustomCrawler.start_worker, lines 434 and 446-448, with CustomCrawler.
\* process_job line 397 and crawl_website line 309: setup_browser raises
\* ValueError, which nothing catches before the except clause of the loop;
\* the delete_message call of lines 437-440 is not reached
SetupBrowserPropagates ==
    /\ entry = "start_worker"
    /\ w2pc = "process"
    /\ ~browser_available
    /\ messages2' = <<>>
    /\ w2pc' = AfterRaise2("ValueError")
    /\ UNCHANGED <<workerVars, crawlVars, scrapeVars, extractVars, browser_available, entry,
                   ccInflight, ccDeleted, handled2>>

\* visited_urls = set(), line 313
NewVisited(old) == {}

\* process_job, line 57, with crawl_website lines 299-320: the browser is set
\* up and the locals of the crawl are initialised
StartCrawl ==
    /\ w2pc = "process"
    /\ browser_available
    /\ website' = messages2[1].body.website
    /\ company_name' = messages2[1].body.company_name
    /\ job_id' = messages2[1].body.job_id
    /\ open_browsers' = open_browsers + 1
    /\ close_calls' = 0
    /\ visited_urls' = NewVisited(visited_urls)
    /\ to_visit' = <<messages2[1].body.website>>
    /\ pdf_files' = <<>>
    /\ html_files' = <<>>
    /\ markdown_files' = <<>>
    /\ page_count' = 0
    /\ results' = [success |-> FALSE]
    /\ fetched' = <<>>
    /\ appended' = <<>>
    /\ rendered' = {}
    /\ cpc' = "loop"
    /\ w2pc' = "crawling"
    /\ UNCHANGED <<workerVars, scrapeVars, extractVars, RunHistory, max_pages, respect_robots_txt, disallowed_paths,
                   site, storage, browser_available, entry, messages2, ccInflight, ccDeleted,
                   handled2>>

\* process_job, lines 57-64: crawl_website has returned (success, result);
\* its locals are gone
ProcessJobReturns ==
    /\ w2pc = "crawling"
    /\ cpc = "returned"
    /\ handled2' = handled2 \cup {[message |-> messages2[1], success |-> results.success,
                                    cause |-> "crawl"]}
    /\ w2pc' = "delete"
    /\ cpc' = "idle"
    /\ visited_urls' = {}
    /\ to_visit' = <<>>
    /\ page_count' = 0
    /\ pdf_files' = <<>>
    /\ html_files' = <<>>
    /\ markdown_files' = <<>>
    /\ results' = [success |-> FALSE]
    /\ fetched' = <<>>
    /\ appended' = <<>>
    /\ rendered' = {}
    /\ close_calls' = 0
    /\ UNCHANGED open_browsers
    /\ UNCHANGED <<workerVars, scrapeVars, extractVars, CrawlConfig, RunHistory, browser_available, entry, messages2,
                   ccInflight, ccDeleted>>

\* run(), lines 105-111: delete_message succeeds and the loop over
\* `messages` goes on
DeleteMessage2 ==
    /\ w2pc = "delete"
    /\ ccDeleted' = ccDeleted \cup {messages2[1]}
    /\ ccInflight' = ccInflight \ {messages2[1]}
    /\ messages2' = Tail(messages2)
    /\ w2pc' = IF Tail(messages2) = <<>> THEN "poll" ELSE "process"
    /\ UNCHANGED <<workerVars, crawlVars, scrapeVars, extractVars, browser_available, entry, handled2>>

\* run(), lines 105-115: delete_message raises and the exception is caught
\* at line 113, which ends the loop over `messages`
DeleteRaises2 ==
    /\ w2pc = "delete"
    /\ messages2' = <<>>
    /\ w2pc' = AfterRaise2("ClientError")
    /\ UNCHANGED <<workerVars, crawlVars, scrapeVars, extractVars, browser_available, entry, ccInflight,
                   ccDeleted, handled2>>

\* the fallback queue's visibility timeout
VisibilityTimeout2(m) ==
    /\ m \in ccInflight
    /\ m \notin Range(messages2)
    /\ ccInflight' = ccInflight \ {m}
    /\ UNCHANGED <<workerVars, crawlVars, scrapeVars, extractVars, browser_available, entry, w2pc, messages2,
                   ccDeleted, handled2>>

NextTier2 ==
    \/ ReceiveMessages2
    \/ ReceiveNothing2
    \/ \E e \in LoopExceptions : ReceiveRaises2(e)
    \/ Backoff2
    \/ SetupBrowserRaises
    \/ StartCrawl
    \/ ProcessJobReturns
    \/ DeleteMessage2
    \/ DeleteRaises2
    \/ \E m \in ccQueue : VisibilityTimeout2(m)

-----------------------------------------------------------------------------
(* app/services/firecrawl_crawler.py: FirecrawlScraper.process_website, as   *)
(* run by the pool threads of the tier-1 worker on the one shared scraper.   *)
(* Here a URL is the sequence of its characters.                              *)

Https == <<"h", "t", "t", "p", "s", ":", "/", "/">>
Http == <<"h", "t", "t", "p", ":", "/", "/">>

\* "https://a.example/"
SiteUrlA == Https \o <<"a", ".", "e", "x", "a", "m", "p", "l", "e", "/">>
\* "http://a.example/"
SiteUrlAPlain == Http \o <<"a", ".", "e", "x", "a", "m", "p", "l", "e", "/">>
\* "https://b.example/"
SiteUrlB == Https \o <<"b", ".", "e", "x", "a", "m", "p", "l", "e", "/">>
\* "https://docs.a.example/products/2024/list/a" and ".../b"
LongPrefix == Https \o <<"d", "o", "c", "s", ".", "a", ".", "e", "x", "a", "m", "p", "l", "e", "/", "p", "r", "o", "d", "u", "c", "t", "s", "/", "2", "0", "2", "4", "/", "l", "i", "s", "t", "/">>
SiteUrlLongA == LongPrefix \o <<"a">>
SiteUrlLongB == LongPrefix \o <<"b">>

ScrapeWebsites == {SiteUrlA, SiteUrlAPlain, SiteUrlB, SiteUrlLongA, SiteUrlLongB}

\* s.replace(old, new)
RECURSIVE Replace(_, _, _)
Replace(s, old, new) ==
    IF s = <<>> THEN <<>>
    ELSE IF StartsWith(s, old) THEN new \o Replace(SubSeq(s, Len(old) + 1, Len(s)), old, new)
    ELSE <<Head(s)>> \o Replace(Tail(s), old, new)

\* s[:n]
Slice(s, n) == SubSeq(s, 1, IF Len(s) < n THEN Len(s) ELSE n)

\* the length of the slice of _generate_filename, line 44
SafeUrlLength == 30

\* _generate_filename, lines 41-45
generate_filename(url, suffix) ==
    Slice(Replace(Replace(Replace(url, Https, <<>>), Http, <<>>), <<"/">>, <<"_">>),
          SafeUrlLength) \o <<"_">> \o suffix

CsvSuffix == <<".", "c", "s", "v">>

\* the pool threads running process_job at the same time
Threads == 1..ThreadpoolSize

CsvNames == {generate_filename(u, CsvSuffix) : u \in ScrapeWebsites}

\* no job is being scraped (used by the other specifications)
ScrapeIdle ==
    /\ scrape_url = [t \in Threads |-> SiteUrlA]
    /\ scrape_pc = [t \in Threads |-> "idle"]
    /\ csv_files = [f \in CsvNames |-> <<>>]
    /\ csv_writers = [f \in CsvNames |-> {}]

\* every pool thread has been handed one job of the batch and has entered
\* process_website (line 170)
InitScrape ==
    /\ scrape_url \in [Threads -> ScrapeWebsites]
    /\ scrape_pc = [t \in Threads |-> "crawl"]
    /\ csv_files = [f \in CsvNames |-> <<>>]
    /\ csv_writers = [f \in CsvNames |-> {}]

\* process_website, line 177: crawl_website returns the crawl result
CrawlReturns(t) ==
    /\ scrape_pc[t] = "crawl"
    /\ scrape_pc' = [scrape_pc EXCEPT ![t] = "save"]
    /\ UNCHANGED <<workerVars, crawlVars, tier2Vars, extractVars, scrape_url, csv_files, csv_writers>>

\* process_website, lines 177 and 193-195: crawl_website raises
CrawlRaises(t) ==
    /\ scrape_pc[t] = "crawl"
    /\ scrape_pc' = [scrape_pc EXCEPT ![t] = "raised"]
    /\ UNCHANGED <<workerVars, crawlVars, tier2Vars, extractVars, scrape_url, csv_files, csv_writers>>

\* save_to_csv, lines 130-148: the output file is opened with mode 'w',
\* which truncates it
OpenCsv(t) ==
    /\ scrape_pc[t] = "save"
    /\ LET f == generate_filename(scrape_url[t], CsvSuffix) IN
        /\ csv_files' = [csv_files EXCEPT ![f] = <<>>]
        /\ csv_writers' = [csv_writers EXCEPT ![f] = @ \cup {t}]
    /\ scrape_pc' = [scrape_pc EXCEPT ![t] = "write"]
    /\ UNCHANGED <<workerVars, crawlVars, tier2Vars, extractVars, scrape_url>>

\* save_to_csv, lines 149-151: the header and the rows are written, a row
\* being named here by the thread that writes it
WriteRows(t) ==
    /\ scrape_pc[t] = "write"
    /\ LET f == generate_filename(scrape_url[t], CsvSuffix) IN
        csv_files' = [csv_files EXCEPT ![f] = Append(@, t)]
    /\ scrape_pc' = [scrape_pc EXCEPT ![t] = "done"]
    /\ UNCHANGED <<workerVars, crawlVars, tier2Vars, extractVars, scrape_url, csv_writers>>

NextScrape ==
    \E t \in Threads :
        \/ CrawlReturns(t)
        \/ CrawlRaises(t)
        \/ OpenCsv(t)
        \/ WriteRows(t)

-----------------------------------------------------------------------------
(* CustomCrawler.html_to_markdown: a text is a sequence of characters and tags *)

MaxLen == 6
MaxPasses == 2

Letters == {"a", "b"}
Tags == {"<p>"}
Whitespace == {" ", "\n"}
Texts == UNION {[1..n -> Letters \cup Whitespace \cup Tags] : n \in 0..MaxLen}

\* the length of the longest prefix of s made of members of set
RECURSIVE PrefixIn(_, _)
PrefixIn(s, set) ==
    IF s # <<>> /\ s[1] \in set THEN 1 + PrefixIn(Tail(s), set) ELSE 0

\* soup.get_text(separator='\n'), line 287: the strings between the tags,
\* joined by the separator
RECURSIVE get_text(_)
get_text(s) ==
    IF s = <<>> THEN <<>>
    ELSE IF s[1] \in Tags THEN get_text(Tail(s))
    ELSE LET n == PrefixIn(s, Letters \cup Whitespace)
             rest == get_text(SubSeq(s, n + 1, Len(s)))
         IN SubSeq(s, 1, n) \o (IF rest = <<>> THEN <<>> ELSE <<"\n">> \o rest)

\* re.sub(r'\n\s*\n', '\n\n', text), line 290: leftmost matches, \s* greedy,
\* so a match runs from a newline to the last newline of the whitespace
\* that follows it
RECURSIVE BlankLinesCollapsed(_)
BlankLinesCollapsed(s) ==
    IF s = <<>> THEN <<>>
    ELSE IF s[1] # "\n" THEN <<s[1]>> \o BlankLinesCollapsed(Tail(s))
    ELSE LET n == PrefixIn(s, Whitespace)
             last == CHOOSE j \in 1..n :
                        s[j] = "\n" /\ \A k \in (j + 1)..n : s[k] # "\n"
         IN IF last = 1 THEN <<"\n">> \o BlankLinesCollapsed(Tail(s))
            ELSE <<"\n", "\n">> \o BlankLinesCollapsed(SubSeq(s, last + 1, Len(s)))

\* mutant of SpacesCollapsed: text.replace('  ', ' '), pairs of spaces
\* replaced in one pass
RECURSIVE PairsOfSpacesReplaced(_)
PairsOfSpacesReplaced(s) ==
    IF s = <<>> THEN <<>>
    ELSE IF Len(s) >= 2 /\ s[1] = " " /\ s[2] = " "
    THEN <<" ">> \o PairsOfSpacesReplaced(SubSeq(s, 3, Len(s)))
    ELSE <<s[1]>> \o PairsOfSpacesReplaced(Tail(s))

\* re.sub(r' +', ' ', text), line 291
RECURSIVE SpacesCollapsed(_)
SpacesCollapsed(s) ==
    IF s = <<>> THEN <<>>
    ELSE IF Len(s) >= 2 /\ s[1] = " " /\ s[2] = " " THEN SpacesCollapsed(Tail(s))
    ELSE <<s[1]>> \o SpacesCollapsed(Tail(s))

\* html_to_markdown, lines 280-293
html_to_markdown(html) == SpacesCollapsed(BlankLinesCollapsed(get_text(html)))

\* no text under extraction
ExtractIdle ==
    /\ html_content = <<>>
    /\ extracted = <<>>

\* a page content is about to be converted
InitExtract ==
    /\ html_content \in Texts
    /\ extracted = <<>>

\* the text the next call is given: the page content, then the last output
Extractable == IF extracted = <<>> THEN html_content ELSE extracted[Len(extracted)]

\* one call of html_to_markdown (convert_html_to_markdown, line 260)
Extract ==
    /\ Len(extracted) < MaxPasses
    /\ extracted' = Append(extracted, html_to_markdown(Extractable))
    /\ UNCHANGED <<workerVars, crawlVars, tier2Vars, scrapeVars, html_content>>

NextExtract == Extract

-----------------------------------------------------------------------------
(* Specifications *)

\* the tier-1 worker and the two queues, no crawl running
InitWorkerSpec == InitWorker /\ CrawlIdle /\ Tier2Idle /\ ScrapeIdle /\ ExtractIdle
SpecWorker == InitWorkerSpec /\ [][NextWorker]_vars

\* one crawl_website session, the workers idle
InitCrawlSpec == InitCrawl /\ InitWorker /\ Tier2Idle /\ ScrapeIdle /\ ExtractIdle
SpecCrawl == InitCrawlSpec /\ [][NextCrawl]_vars

\* one crawl_website session whose thread keeps running: a step that is
\* possible is taken (every fetch returns or times out)
FairCrawl == WF_vars(NextCrawl)
InitCrawlFair ==
    InitCrawlWith(TerminationInputs) /\ InitWorker /\ Tier2Idle /\ ScrapeIdle /\ ExtractIdle
SpecCrawlFair == InitCrawlFair /\ [][NextCrawl]_vars /\ FairCrawl

\* one job executed twice by crawl_website
InitRerunSpec == InitCrawlWith(RerunInputs) /\ InitWorker /\ Tier2Idle /\ ScrapeIdle /\ ExtractIdle
NextRerun == NextCrawl \/ Rerun
SpecRerun == InitRerunSpec /\ [][NextRerun]_vars

\* the fallback queue as the tier-1 worker can leave it: messages forwarded
\* with a failure reason, and with the empty reason of an exception without
\* a message
MaxFallback == 2
FallbackReasons == {"Failed to process with Firecrawl", ""}
FallbackMessages ==
    {[source |-> j, delivery |-> 1, body |-> AnnotateJob(NewJob(j), r)] :
        j \in Jobs, r \in FallbackReasons}
FallbackQueues ==
    {q \in SUBSET FallbackMessages : Cardinality(q) \in 1..MaxFallback}

\* the tier-1 worker is not running; it has forwarded the jobs of the
\* fallback queue and deleted their first-tier messages
Tier1Done ==
    /\ ccQueue \in FallbackQueues
    /\ fcQueue = [j \in Jobs |-> IF \E m \in ccQueue : m.source = j THEN "deleted" ELSE "absent"]
    /\ w1pc = "idle"
    /\ futures = <<>>
    /\ polls = 1
    /\ deliveries = [j \in Jobs |-> IF \E m \in ccQueue : m.source = j THEN 1 ELSE 0]
    /\ processed = [j \in Jobs |-> IF \E m \in ccQueue : m.source = j THEN 1 ELSE 0]
    /\ deletedAfter = [j \in Jobs |-> IF \E m \in ccQueue : m.source = j THEN "failure" ELSE "none"]
    /\ crashed = FALSE
    /\ threadpool_size = ThreadpoolSize

\* the tier-2 worker alone, with its crawls, on a fallback queue holding messages
InitTier2Spec == Tier1Done /\ InitTier2 /\ ScrapeIdle /\ ExtractIdle
NextTier2Spec == NextTier2 \/ NextCrawl
SpecTier2 == InitTier2Spec /\ [][NextTier2Spec]_vars

\* either loop of the tier-2 worker, CustomCrawlerWorker.run or
\* CustomCrawler.start_worker, with its crawls
InitTier2Loops ==
    Tier1Done /\ InitTier2With({"run", "start_worker"}) /\ ScrapeIdle /\ ExtractIdle
NextTier2Loops == NextTier2 \/ SetupBrowserPropagates \/ NextCrawl
SpecTier2Loops == InitTier2Loops /\ [][NextTier2Loops]_vars

\* the jobs submitted where both workers are modelled
PipelineJobs == {"job-1"}

\* the tier-1 worker with the jobs of PipelineJobs
NextTier1 ==
    \/ \E j \in PipelineJobs : Submit(j)
    \/ ReceiveMessages
    \/ \E e \in LoopExceptions : ReceiveRaises(e)
    \/ Backoff
    \/ \E i \in 1..ThreadpoolSize : RunProcessJob(i)
    \/ ForwardFailure
    \/ DeleteMessage
    \/ DeleteRaises
    \/ Crash
    \/ \E j \in Jobs : VisibilityTimeout(j)

\* either worker running on its own queue
InitWorkers == (InitWorkerSpec /\ threadpool_size = ThreadpoolSize) \/ InitTier2Spec
NextWorkers == NextTier1 \/ NextTier2 \/ NextCrawl
SpecWorkers == InitWorkers /\ [][NextWorkers]_vars

\* both workers running, the two queues and the crawls of the tier-2 worker
InitPipeline == InitWorker /\ threadpool_size = ThreadpoolSize /\ InitTier2 /\ ScrapeIdle /\ ExtractIdle
NextPipeline == NextTier1 \/ NextTier2 \/ NextCrawl

\* the scheduling of the two worker processes: a step a worker can take is
\* taken, a delete that is retried eventually succeeds, and the queues
\* redeliver what was received and not deleted
FairPipeline ==
    /\ WF_vars(ReceiveMessages)
    /\ \A i \in 1..ThreadpoolSize : WF_vars(RunProcessJob(i))
    /\ WF_vars(ForwardFailure)
    /\ WF_vars(DeleteMessage \/ DeleteRaises)
    /\ WF_vars(Backoff)
    /\ WF_vars(Backoff2)
    /\ WF_vars(\E j \in Jobs : VisibilityTimeout(j))
    /\ WF_vars(ReceiveMessages2)
    /\ WF_vars(SetupBrowserRaises)
    /\ WF_vars(StartCrawl)
    /\ WF_vars(NextCrawl)
    /\ WF_vars(ProcessJobReturns)
    /\ SF_vars(DeleteMessage2)
    /\ WF_vars(\E m \in ccQueue : VisibilityTimeout2(m))

SpecPipeline == InitPipeline /\ [][NextPipeline]_vars /\ FairPipeline

\* the pool threads of one batch inside the shared scraper
InitScrapeSpec == InitScrape /\ InitWorker /\ CrawlIdle /\ Tier2Idle /\ ExtractIdle
SpecScrape == InitScrapeSpec /\ [][NextScrape]_vars

\* html_to_markdown applied to a text and then to its own output
InitExtractSpec == InitExtract /\ InitWorker /\ CrawlIdle /\ Tier2Idle /\ ScrapeIdle
SpecExtract == InitExtractSpec /\ [][NextExtract]_vars

-----------------------------------------------------------------------------
(* Properties of the tier-1 worker (checked under SpecWorker) *)

\* C1 (as claimed): every message the worker puts on the fallback queue for a
\* failed job J carries job_id = J, the tier-1-failure status and a failure
\* reason, whatever the cause of the failure.
C1_ForwardedMessageAnnotated ==
    \A m \in ccQueue :
        /\ m.body.job_id = m.source
        /\ m.body.status = "firecrawl_failed"
        /\ "firecrawl_failure_reason" \in DOMAIN m.body

\* the fields a forward leaves alone
CarriedFields == {"job_id", "company_name", "website", "created_at"}

\* C31: a message of the fallback queue holds every field of the first-tier
\* message of its job, with job_id, company_name, website and created_at
\* equal to those of the first-tier message, and holds no other field than
\* those and the failure reason.
C31_ForwardKeepsJobFields ==
    \A m \in ccQueue :
        LET first == ReceivedJob[m.source] IN
        /\ DOMAIN first \subseteq DOMAIN m.body
        /\ \A k \in CarriedFields : k \in DOMAIN first /\ m.body[k] = first[k]
        /\ DOMAIN m.body \ DOMAIN first \subseteq {"firecrawl_failure_reason"}

\* C31 witness: a job that failed with an exception message was forwarded
\* with the failure status and that reason
C31_ForwardedWithReason ==
    \E m \in ccQueue :
        /\ m.body.status = "firecrawl_failed"
        /\ "firecrawl_failure_reason" \in DOMAIN m.body
        /\ m.body.firecrawl_failure_reason = "timeout"
        /\ m.body.created_at = NewJob(m.source).created_at

\* a step in which the handling of the first entry of `futures` ends with an
\* exception: the entry leaves the list, its message is not deleted and the
\* worker process has not died
HandlerRaised ==
    /\ w1pc = "handle"
    /\ futures # <<>>
    /\ Len(futures') < Len(futures)
    /\ fcQueue' = fcQueue
    /\ ~crashed /\ ~crashed'

\* C32: when the handling of one job of a batch ends with an exception, the
\* other jobs of the batch stay in `futures` and the worker goes on with the
\* next of them; the worker never polls or backs off with jobs of a batch
\* left unhandled, and a job of the batch is deleted only after its result
\* was awaited and, if it failed, handed to the fallback queue.
C32_ExceptionIsolatedInBatch ==
    /\ [][HandlerRaised =>
            /\ futures' = Tail(futures)
            /\ w1pc' = IF Tail(futures) = <<>> THEN "poll" ELSE "handle"]_vars
    /\ [](w1pc # "handle" => futures = <<>>)
    /\ [][\A i \in DOMAIN futures :
            (fcQueue[futures[i].receipt_handle] # "deleted"
             /\ fcQueue'[futures[i].receipt_handle] = "deleted") =>
                /\ i = 1
                /\ futures[i].done
                /\ futures[i].success \/ futures[i].forwarded]_vars

\* C32 witness: in a batch of two the delete of the first job raised, and the
\* second job, which failed, has since been handed to the fallback queue and
\* waits for its delete
C32_SecondJobHandledAfterRaise ==
    /\ ~crashed /\ polls = 1 /\ w1pc = "handle"
    /\ Len(futures) = 1
    /\ futures[1].done /\ ~futures[1].success /\ futures[1].forwarded
    /\ \E m \in ccQueue : m.source = futures[1].receipt_handle
    /\ \E j \in Jobs :
        /\ j # futures[1].receipt_handle
        /\ deliveries[j] = 1
        /\ fcQueue[j] = "inflight"

\* C2 (as claimed): a job whose first-tier message was deleted after a failed
\* tier-1 scrape has a message on the fallback queue.
C2_NoJobLostAtHandoff ==
    \A j \in Jobs :
        (fcQueue[j] = "deleted" /\ deletedAfter[j] = "failure")
            => \E m \in ccQueue : m.source = j

\* C3: a first-tier message is deleted only with the (success, result) outcome
\* of its process_job known, and every message whose handling is not finished
\* is still on the queue, in flight, so a crash leaves it to be redelivered.
C3_DeleteOnlyAfterResult ==
    /\ \A j \in Jobs : fcQueue[j] = "deleted" => deletedAfter[j] \in {"success", "failure"}
    /\ \A i \in DOMAIN futures : fcQueue[futures[i].receipt_handle] = "inflight"

\* C3 witness: after a crash a job was received and processed a second time
C3_ProcessedTwiceAfterCrash ==
    \E j \in Jobs : crashed /\ deliveries[j] = 2 /\ processed[j] = 2 /\ fcQueue[j] = "deleted"

\* the pool threads that are inside process_job
Running == {i \in DOMAIN futures : ~futures[i].done}

\* C16: a poll receives at most threadpool_size messages, at most that many
\* jobs are scraped at a time, and the worker is at its poll only with no
\* batch left; unless the process died, it comes back to the poll from the
\* last job of the batch, whose result it has awaited.
C16_PoolSizeBoundsConcurrency ==
    /\ [](/\ Len(futures) <= threadpool_size
          /\ Cardinality(Running) <= threadpool_size
          /\ w1pc \in {"poll", "backoff"} => futures = <<>>)
    /\ [][(~crashed' /\ w1pc = "handle" /\ w1pc' # "handle") =>
            (w1pc' = "poll" /\ Len(futures) = 1 /\ futures[1].done)]_vars

\* C16 witness: with a pool of one thread and two messages on the queue the
\* worker received one message and scrapes it, the other still on the queue
C16_PoolSizeBinds ==
    /\ threadpool_size = 1
    /\ w1pc = "handle"
    /\ Cardinality(Running) = 1
    /\ \E j \in Jobs : fcQueue[j] = "visible"

\* the fallback-queue messages sent for the delivery a future holds
SentFor(f) ==
    {m \in ccQueue : m.source = f.receipt_handle /\ m.delivery = deliveries[f.receipt_handle]}

\* a step in which the worker is done with the first future of its batch,
\* whose scrape succeeded
SuccessHandled ==
    /\ futures # <<>>
    /\ futures[1].success
    /\ futures' = Tail(futures)

\* C21 (as claimed): nothing is sent to the fallback queue for a delivery
\* whose scrape succeeded, and when the worker is done with that delivery its
\* first-tier message is deleted.
C21_SuccessDeletesMessage ==
    /\ [](\A i \in DOMAIN futures : futures[i].success => SentFor(futures[i]) = {})
    /\ [][(SuccessHandled /\ ~crashed') =>
            fcQueue'[futures[1].receipt_handle] = "deleted"]_vars

\* C21 (amended): nothing is sent to the fallback queue for a delivery whose
\* scrape succeeded: every send is for the first future of the batch, whose
\* scrape failed.  When the worker is done with a successful delivery it has
\* called delete_message: the message is deleted and the job complete, or the
\* call raised (or the process died) and the message is still in flight.
C21_SuccessSendsNothing ==
    /\ [](/\ \A i \in DOMAIN futures : futures[i].success => SentFor(futures[i]) = {}
          /\ \A j \in Jobs : deletedAfter[j] = "success" => fcQueue[j] = "deleted")
    /\ [][ccQueue' # ccQueue =>
            /\ futures # <<>>
            /\ futures[1].done /\ ~futures[1].success
            /\ \E m \in SentFor(futures[1])' : ccQueue' = ccQueue \cup {m}]_vars
    /\ [][SuccessHandled =>
            LET j == futures[1].receipt_handle IN
            \/ fcQueue'[j] = "deleted" /\ deletedAfter'[j] = "success"
            \/ fcQueue'[j] = "inflight" /\ UNCHANGED <<fcQueue, deletedAfter>>]_vars

\* C21 witness: a job was delivered once, its scrape succeeded, its message
\* is deleted and the fallback queue is empty
C21_CompletedAtTier1 ==
    \E j \in Jobs :
        /\ deliveries[j] = 1
        /\ processed[j] = 1
        /\ deletedAfter[j] = "success"
        /\ fcQueue[j] = "deleted"
        /\ ccQueue = {}

-----------------------------------------------------------------------------
(* Properties of crawl_website (checked under SpecCrawl) *)

NoDuplicates(q) == \A i, j \in DOMAIN q : i # j => q[i] # q[j]

\* the URLs visited so far, in the order of their visit
VisitOrder == [i \in DOMAIN fetched |-> fetched[i].url]

\* the URLs fetched so far
FetchedUrls == {fetched[i].url : i \in DOMAIN fetched}

\* the links found in the content of page u
LinksOn(u) == Range(extract_links(site[u], u))

\* same domain as the root and allowed by the robots policy
Crawlable(u) ==
    /\ is_same_domain(u, base_domain)
    /\ is_allowed_url(u, respect_robots_txt, disallowed_paths)

\* pages whose render was tried and returned no content
FailedPages == {fetched[i].url : i \in {k \in DOMAIN fetched : ~fetched[k].ok}}

\* pages that hold links: every URL that is not a document
Pages == {u \in URLs : ~EndsWithPdf(u)}

\* breadth-first levels from the root over the crawlable URLs, following
\* links out of the pages in `from` only: the map URL -> link distance
RECURSIVE Levels(_, _, _, _)
Levels(dist, front, k, from) ==
    LET next == {v \in URLs \ DOMAIN dist :
                    Crawlable(v) /\ \E u \in front \cap from : v \in LinksOn(u)}
    IN IF next = {} THEN dist
       ELSE Levels(dist @@ [v \in next |-> k + 1], next, k + 1, from)

Distances(from) ==
    LET start == {u \in {website} : Crawlable(u)}
    IN Levels([u \in start |-> 0], start, 0, from)

Reachable(from) == DOMAIN Distances(from)

host_differs(u) == ~is_same_domain(u, base_domain)

\* C4 (as claimed): a link to another host is never appended to the frontier,
\* and a document link to another host found on a rendered page is fetched
\* exactly once by the end of a crawl whose budget was not exhausted.
C4_CrossDomainDocumentFetched ==
    /\ \A u \in Range(appended) \cup Range(to_visit) : ~host_differs(u)
    /\ (cpc = "done" /\ page_count < max_pages) =>
         \A p \in rendered : \A u \in LinksOn(p) :
            (host_differs(u) /\ EndsWithPdf(u)) =>
                Cardinality({i \in DOMAIN fetched : fetched[i].url = u}) = 1

\* C5: no URL is fetched (rendered or downloaded) twice in a session.
C5_FetchedAtMostOnce == NoDuplicates(VisitOrder)

\* C5 witness: a crawl of the site with self-links and cycles fetched its three pages
C5_CycleCrawled ==
    site = SiteCycle /\ cpc = "done" /\ FetchedUrls = {R, X, Y} /\ rendered = {R, X, Y}

\* C6: page_count, the number of fetches and the returned pages_crawled stay
\* within the page budget.
C6_WithinBudget ==
    /\ page_count <= max_pages
    /\ Len(fetched) <= max_pages
    /\ Cardinality(visited_urls) <= max_pages
    /\ cpc = "done" => results.pages_crawled <= max_pages

\* C6 witness: the crawl ended on its budget with URLs left in the frontier
C6_StoppedByBudget ==
    cpc = "done" /\ max_pages > 0 /\ results.pages_crawled = max_pages /\ to_visit # <<>>

\* C7 (as claimed): a finished crawl whose root reaches at least max_pages
\* crawlable URLs over the links of the site returns pages_crawled = max_pages
\* and visited no URL twice.
C7_BudgetFilledOverSiteLinks ==
    (cpc = "done" /\ Cardinality(Reachable(Pages)) >= max_pages) =>
        /\ results.pages_crawled = max_pages
        /\ NoDuplicates(VisitOrder)

\* C7 (amended): the same, counting only the URLs reached through pages whose
\* render did not fail.
C7_BudgetFilled ==
    (cpc = "done" /\ Cardinality(Reachable(Pages \ FailedPages)) >= max_pages) =>
        /\ results.pages_crawled = max_pages
        /\ NoDuplicates(VisitOrder)

\* C7 witness: a budget of three filled on a site with three or more reachable URLs
C7_BudgetOfThreeFilled ==
    /\ cpc = "done" /\ max_pages = 3
    /\ Cardinality(Reachable(Pages \ FailedPages)) > 3
    /\ results.pages_crawled = 3

\* the visit order never steps to a URL nearer to the root (an unreachable
\* URL counts as farther than any other)
NonDecreasingDistance(from) ==
    LET dist == Distances(from)
        far == Cardinality(URLs)
        D(u) == IF u \in DOMAIN dist THEN dist[u] ELSE far
    IN \A i \in 1..(Len(fetched) - 1) : D(fetched[i].url) <= D(fetched[i + 1].url)

\* Scenario A of the spec, every render succeeding
ScenarioA ==
    (/\ site = SiteScenarioA /\ website = R /\ ~respect_robots_txt /\ max_pages = 3
     /\ cpc = "done" /\ FailedPages = {})
        => /\ VisitOrder = <<R, X, Y>>
           /\ Z \notin FetchedUrls
           /\ results.pages_crawled = 3

\* C8 (as claimed): URLs are visited in non-decreasing link distance from the
\* root over the links of the site, and Scenario A gives [root, x, y].
C8_ShallowFirstOverSiteLinks == NonDecreasingDistance(Pages) /\ ScenarioA

\* C8 (amended): URLs are visited in non-decreasing link distance from the
\* root over the links of the pages whose render did not fail, and Scenario A
\* gives [root, x, y].
C8_ShallowFirst == NonDecreasingDistance(Pages \ FailedPages) /\ ScenarioA

\* C8 witness: Scenario A has run to its end
C8_ScenarioARun ==
    /\ site = SiteScenarioA /\ website = R /\ ~respect_robots_txt /\ max_pages = 3
    /\ cpc = "done" /\ VisitOrder = <<R, X, Y>>

\* C9: a URL enters the frontier at most once in a session, the frontier holds
\* no URL twice and holds no visited URL.
C9_FrontierInsertionIdempotent ==
    /\ NoDuplicates(<<website>> \o appended)
    /\ NoDuplicates(to_visit)
    /\ Range(to_visit) \cap visited_urls = {}

\* C9 witness: a site repeating its links on one page and across pages was crawled
C9_DuplicateLinksCrawled ==
    site = SiteDuplicates /\ cpc = "done" /\ rendered = {R, X, Y} /\ appended = <<X, Y>>

DisallowedByRobots(u) ==
    respect_robots_txt /\ \E i \in DOMAIN disallowed_paths : StartsWith(PathOf(u), disallowed_paths[i])

\* C10: with robots compliance on, a URL whose path starts with a disallowed
\* prefix is never fetched and never marked visited, the root included.
C10_DisallowedNeverVisited ==
    \A u \in URLs : DisallowedByRobots(u) => (u \notin visited_urls /\ u \notin FetchedUrls)

\* C10 witness: /private/report was linked from every page crawled and left alone
C10_PrivateLinkSeen ==
    /\ site = SitePrivate /\ website = R /\ DisallowedByRobots(PR)
    /\ cpc = "done" /\ rendered = {R, X, Y}

\* a fetch record of a document URL whose GET returned status 200 with a
\* Content-Type holding application/pdf
PdfFetchSucceeded(f) ==
    /\ f.kind = "document"
    /\ f.response.kind = "response"
    /\ f.response.status_code = 200
    /\ ContainsPdfType(f.response.content_type)

\* ... and whose file was written to the job's folder
PdfFetchPersisted(f) == PdfFetchSucceeded(f) /\ f.written

\* the document artifact paths of a sequence of fetch records
PathsOf(q) == [i \in DOMAIN q |-> PdfPath(q[i].url, company_name, job_id)]

\* a step of the loop that fetched a document URL
DocumentStep ==
    /\ Len(fetched') = Len(fetched) + 1
    /\ fetched'[Len(fetched')].kind = "document"

\* what a document step does to the traversal, whatever the fetch returned
TraversalUnaffected ==
    /\ to_visit' = Tail(to_visit)
    /\ visited_urls' = visited_urls \cup {to_visit[1]}
    /\ page_count' = page_count + 1
    /\ cpc' = "loop"
    /\ UNCHANGED <<html_files, markdown_files, appended, rendered, results>>

\* C11 (as claimed): pdf_files holds exactly the visited document URLs whose
\* fetch returned success with content-type application/pdf.
C11_PersistedIffPdfResponse ==
    pdf_files = PathsOf(SelectSeq(fetched, PdfFetchSucceeded))

\* C11 (amended): pdf_files holds exactly the visited document URLs whose fetch
\* returned success with content-type application/pdf and whose file was
\* written; a document fetch never aborts the crawl and changes the frontier,
\* the visited set and the page count the same way whatever it returned.
C11_PersistedIffPdfWritten ==
    /\ [](pdf_files = PathsOf(SelectSeq(fetched, PdfFetchPersisted)))
    /\ [][DocumentStep => TraversalUnaffected]_vars

\* C11 witness: a document fetch answered with another content type was not
\* persisted and the crawl went on to fetch further URLs and ended normally
C11_RejectedDocumentThenMore ==
    /\ cpc = "done"
    /\ \E i \in DOMAIN fetched :
        /\ fetched[i].kind = "document"
        /\ fetched[i].response.kind = "response"
        /\ fetched[i].response.content_type = "text/html"
        /\ i < Len(fetched)
        /\ ~(PdfPath(fetched[i].url, company_name, job_id) \in Range(pdf_files))

\* C12: while the traversal runs the session opened by crawl_website is open
\* and close_browser has not been called; when crawl_website has returned,
\* by the normal path, on the budget or after an exception, close_browser
\* has been called exactly once and no session is left open.
C12_BrowserClosedOnce ==
    /\ cpc \in {"loop", "done", "failed"} => (open_browsers = 1 /\ close_calls = 0)
    /\ cpc = "returned" => (open_browsers = 0 /\ close_calls = 1)

\* C12 witness: crawl_website returned after an exception in the traversal
C12_ReturnedAfterException ==
    /\ cpc = "returned"
    /\ ~results.success
    /\ fetched # <<>>
    /\ close_calls = 1

\* the directory named "{company_name}_{job_id}" directly under a storage root
JobDirectory(root) ==
    [absolute |-> FALSE, dirs |-> << <<root>>, CompanyFolder(company_name, job_id) >>]

\* C22 (as claimed): every path in pdf_files, html_files and markdown_files
\* lies directly inside the directory named "{company_name}_{job_id}" under
\* the root of its artifact type.
C22_ArtifactsInJobDirectory ==
    /\ \A p \in Range(pdf_files) : DirectoryOf(p) = JobDirectory("pdf_folder")
    /\ \A p \in Range(html_files) : DirectoryOf(p) = JobDirectory("html_folder")
    /\ \A p \in Range(markdown_files) : DirectoryOf(p) = JobDirectory("markdown_folder")

\* a URL without its fragment
RECURSIVE WithoutFragment(_)
WithoutFragment(url) ==
    IF url = <<>> \/ Head(url) = "#" THEN <<>>
    ELSE <<Head(url)>> \o WithoutFragment(Tail(url))

\* the normal form of a URL spelling: no fragment, and no slash at the end
\* of a path that is not the root path
Normalized(url) ==
    LET u == WithoutFragment(url) IN
    IF Len(u) > 3 /\ u[Len(u)] = "/" THEN SubSeq(u, 1, Len(u) - 1) ELSE u

\* C24 (as claimed): two URL spellings with the same normal form are not both
\* visited in a session, so they take one unit of the page budget.
C24_VisitedOncePerNormalForm ==
    \A i, j \in DOMAIN fetched :
        i # j => Normalized(fetched[i].url) # Normalized(fetched[j].url)

\* a URL ending in .pdf in any letter case
DocumentUrl(u) == u # <<>> /\ u[Len(u)] \in {".pdf", ".PDF"}

\* a turn of the loop that visits a document URL
DocumentVisited ==
    /\ to_visit # <<>>
    /\ DocumentUrl(to_visit[1])
    /\ visited_urls' # visited_urls

\* C29: a URL ending in .pdf is never rendered through the browser and is
\* fetched as a document only; the turn of the loop that visits it removes
\* it from the frontier and adds nothing to the frontier, to the rendered
\* pages, to html_files or to markdown_files.
C29_DocumentNeverExpanded ==
    /\ [](/\ \A u \in rendered : ~DocumentUrl(u)
          /\ \A i \in DOMAIN fetched :
                DocumentUrl(fetched[i].url) <=> fetched[i].kind = "document")
    /\ [][DocumentVisited =>
            /\ to_visit' = Tail(to_visit)
            /\ UNCHANGED <<appended, rendered, html_files, markdown_files>>]_vars

\* C29 witness: a document was downloaded and stored while a page waited in
\* the frontier; the page was rendered after it and the crawl ended normally
C29_DocumentStoredMidCrawl ==
    /\ cpc = "done"
    /\ site = SiteDocuments
    /\ \E i \in DOMAIN fetched :
        /\ fetched[i].kind = "document" /\ fetched[i].ok
        /\ fetched[i].url = SD
        /\ i < Len(fetched)
        /\ pdf_files # <<>>
        /\ rendered = {R, X}

\* a turn of the loop whose get_page_content returned no content
NoContentStep ==
    /\ Len(fetched') = Len(fetched) + 1
    /\ fetched'[Len(fetched')].kind = "page"
    /\ ~fetched'[Len(fetched')].ok

\* the fetch records of the pages whose render gave content
RenderedOk == {i \in DOMAIN fetched : fetched[i].kind = "page" /\ fetched[i].ok}

\* C28: a page whose render returns no content adds nothing to html_files,
\* markdown_files and the frontier, is marked visited, uses one unit of the
\* page budget and leaves the loop running on the rest of the frontier; raw
\* pages are recorded for pages with content only, and pages_crawled counts
\* the pages without content.
C28_FailedRenderSkipped ==
    /\ [][NoContentStep =>
            /\ to_visit' = Tail(to_visit)
            /\ visited_urls' = visited_urls \cup {to_visit[1]}
            /\ page_count' = page_count + 1
            /\ cpc' = "loop"
            /\ UNCHANGED <<html_files, markdown_files, pdf_files, appended, rendered, results>>]_vars
    /\ [](/\ Len(html_files) <= Cardinality(RenderedOk)
          /\ Len(markdown_files) <= Cardinality(RenderedOk)
          /\ \A i \in DOMAIN fetched : fetched[i].url \in visited_urls
          /\ cpc = "done" => results.success /\ results.pages_crawled = Len(fetched))

\* C28 witness: a crawl ended normally in which a page without content was
\* followed by a page that was rendered and stored
C28_RenderFailedThenPageStored ==
    /\ cpc = "done"
    /\ \E i, j \in DOMAIN fetched :
        /\ i < j
        /\ fetched[i].kind = "page" /\ ~fetched[i].ok
        /\ fetched[j].kind = "page" /\ fetched[j].ok
        /\ fetched[j].url \in rendered
        /\ Len(html_files) = Cardinality(RenderedOk)
        /\ results.pages_crawled = Len(fetched)

\* C30: no raw-page path and no extracted-text path is recorded twice in one
\* session: two visited pages are never written to the same file.
C30_NoArtifactPathTwice ==
    /\ NoDuplicates(html_files)
    /\ NoDuplicates(markdown_files)

\* the largest number of links extract_links returns for a page of the site
OutDegree ==
    LET lens == {Len(extract_links(site[u], u)) : u \in URLs}
    IN CHOOSE n \in lens : \A m \in lens : m <= n

\* what is left of the session: the budget not yet used, weighted by what
\* one page can add to the frontier, the frontier, and the steps after the loop
Variant ==
    (max_pages - page_count) * (OutDegree + 1) + Len(to_visit)
    + (IF cpc = "loop" THEN 2 ELSE IF cpc \in {"done", "failed"} THEN 1 ELSE 0)

\* C25: crawl_website returns; it issues at most max_pages fetches; the loop
\* is left with an empty frontier or a used-up budget, and the value
\* returned then holds the artifacts collected; every step of the session
\* decreases a natural number that depends on the budget, the frontier and
\* the out-degree only, whatever the size of the site.
C25_CrawlTerminates ==
    /\ <>(cpc = "returned")
    /\ [](/\ Len(fetched) <= max_pages
          /\ Variant >= 0
          /\ cpc = "done" =>
               /\ to_visit = <<>> \/ page_count = max_pages
               /\ results.success
               /\ results.pages_crawled = Len(fetched)
               /\ results.pdf_files = pdf_files
               /\ results.html_files = html_files
               /\ results.markdown_files = markdown_files)
    /\ [][Variant' < Variant]_vars

\* C25 witness: on the site with cycles the crawl has returned, stopped by
\* its budget with the frontier not empty
C25_ReturnedOnBudgetInCycle ==
    /\ site = SiteCycle
    /\ cpc = "returned"
    /\ results.success
    /\ page_count = max_pages
    /\ to_visit # <<>>

-----------------------------------------------------------------------------
(* Properties of the two tier-2 loops (checked under SpecTier2Loops) *)

\* C27: a fallback-queue message is deleted only after process_job has
\* returned for it, and a received message leaves the loop only at the
\* delete_message call that follows process_job, whether the crawl succeeded,
\* failed, or could not set up its browser.
C27_DeleteAfterProcess ==
    /\ [](\A m \in ccDeleted : \E h \in handled2 : h.message = m)
    /\ [][(messages2 # <<>> /\ messages2' # messages2) => w2pc = "delete"]_vars

-----------------------------------------------------------------------------
(* Properties of html_to_markdown (checked under SpecExtract) *)

\* a text of letters, spaces and newlines
TagFree(s) == \A i \in DOMAIN s : s[i] \notin Tags

\* C26: html_to_markdown applied to its own output returns that output
\* unchanged; the output holds no tag, no run of two spaces and no
\* whitespace run with two newlines apart or more than two newlines.
C26_ExtractionIdempotent ==
    /\ \A i \in DOMAIN extracted : extracted[i] = extracted[1]
    /\ \A i \in DOMAIN extracted :
        /\ TagFree(extracted[i])
        /\ SpacesCollapsed(extracted[i]) = extracted[i]
        /\ BlankLinesCollapsed(extracted[i]) = extracted[i]

\* C26 witness: a text of letters, spaces and newlines with a run of spaces
\* and a blank-line run was shortened by the first call and given back by
\* the second
C26_NormalizedThenStable ==
    /\ TagFree(html_content)
    /\ Len(extracted) = 2
    /\ \E i \in 1..(Len(html_content) - 1) : html_content[i] = " " /\ html_content[i + 1] = " "
    /\ \E i \in 1..(Len(html_content) - 2) :
            html_content[i] = "\n" /\ html_content[i + 1] = " " /\ html_content[i + 2] = "\n"
    /\ \E i \in DOMAIN html_content : html_content[i] \in Letters
    /\ Len(extracted[1]) < Len(html_content)
    /\ extracted[2] = extracted[1]

-----------------------------------------------------------------------------
(* Properties of a repeated crawl (checked under SpecRerun) *)

\* the second execution of the job has returned; its fetches were answered
\* as those of the first execution and it ended the same way, by a return
\* or by an exception
RerunReturned ==
    /\ run = 2
    /\ cpc = "returned"
    /\ fetched = first_run.answers
    /\ results.success = first_run.results.success

\* C23 (as claimed): executed again over the same pages with the same
\* answers, crawl_website returns what the first execution returned.
C23_RerunReturnsSameResult ==
    RerunReturned => results = first_run.results

-----------------------------------------------------------------------------
(* Properties of the tier-2 worker (checked under SpecTier2) *)

\* C13 (as claimed): with the browser backend unavailable no fallback-queue
\* message is received, failed because of the backend and deleted.
C13_UnavailableBackendNeverPerJob ==
    ~browser_available =>
        \A h \in handled2 : ~(h.cause = "setup_browser" /\ h.message \in ccDeleted)

\* the worker is inside the handling of a received message
Handling2 == w2pc \in {"process", "crawling", "delete"}

\* the worker is at its receive_message call, or sleeps before it
AtPoll2 == w2pc \in {"poll", "backoff"}

CrawlStarts == w2pc = "process" /\ w2pc' = "crawling"

\* the state crawl_website starts from (lines 309-320)
FreshCrawl ==
    /\ visited_urls' = {}
    /\ to_visit' = <<messages2[1].body.website>>
    /\ page_count' = 0
    /\ pdf_files' = <<>>
    /\ html_files' = <<>>
    /\ markdown_files' = <<>>
    /\ open_browsers = 0
    /\ open_browsers' = 1

\* C18: a crawl that raised reports failure, is recorded as a failure of its
\* own message only, and its browser is closed before process_job returns;
\* the loop of the worker is left by an interrupt only; every crawl starts
\* with an empty visited set, a frontier holding its own root only, no
\* artifacts and a browser session of its own, and visits only what it
\* fetched itself.
C18_FailureAbortsOnlyThatJob ==
    /\ [](/\ cpc = "failed" => ~results.success
          /\ (cpc = "returned" /\ ~results.success) => open_browsers = 0
          /\ w2pc \in {"poll", "backoff", "process", "delete"} => (open_browsers = 0 /\ cpc = "idle")
          /\ w2pc \in {"idle", "poll", "backoff", "process", "crawling", "delete", "KeyboardInterrupt"}
          /\ w2pc = "crawling" => (visited_urls = FetchedUrls /\ page_count = Len(fetched))
          /\ \A h \in handled2 : h.message \in ccQueue)
    /\ [][CrawlStarts => FreshCrawl]_vars

\* C18 witness: the crawl of one message raised and was recorded as failed;
\* the worker went on, and the crawl of another message has returned with
\* both pages of its site
C18_NextJobAfterFailedCrawl ==
    /\ w2pc = "crawling"
    /\ cpc = "returned"
    /\ results.success
    /\ results.pages_crawled = 2
    /\ \E h \in handled2 :
        /\ h.cause = "crawl"
        /\ ~h.success
        /\ h.message \in ccDeleted
        /\ h.message # messages2[1]

-----------------------------------------------------------------------------
(* Properties of the two workers (checked under SpecWorkers) *)

\* the statuses of the job lifecycle
LifecycleStatuses ==
    {"pending", "tier1_processing", "completed", "tier1_failed", "tier2_processing", "failed"}

\* the status carried by the job a tier-1 future holds, and by the body of a
\* fallback-queue message
StatusOf(job) == job.status

\* C14 (as claimed): the job carries the status of the orchestrator that holds
\* it: tier1_processing while the tier-1 worker holds it, tier2_processing
\* while the tier-2 worker holds it, and no status outside the lifecycle.
C14_StatusFollowsLifecycle ==
    /\ \A i \in DOMAIN futures :
        /\ StatusOf(futures[i].job) \in LifecycleStatuses
        /\ ~futures[i].done => StatusOf(futures[i].job) = "tier1_processing"
    /\ \A i \in DOMAIN messages2 :
        /\ StatusOf(messages2[i].body) \in LifecycleStatuses
        /\ StatusOf(messages2[i].body) = "tier2_processing"

\* a step in which a queue call of a worker raised a transport error that
\* reached the handler of the polling loop
RaisedInLoop ==
    \/ \E e \in TransportErrors : ReceiveRaises(e) \/ ReceiveRaises2(e)
    \/ DeleteRaises2

-----------------------------------------------------------------------------
(* Properties of the shared scraper (checked under SpecScrape) *)

\* C17 (as claimed): no output file is opened for writing by two of the jobs
\* that the pool runs at the same time.
C17_NoFileWrittenByTwoJobs ==
    \A f \in CsvNames : Cardinality(csv_writers[f]) <= 1

-----------------------------------------------------------------------------
(* Properties of the pipeline (checked under SpecPipeline) *)

\* the job has reached a terminal outcome: its first-tier message is deleted
\* and it was completed at tier 1, or a fallback-queue message of it was
\* processed by tier 2 and deleted
Terminal(j) ==
    /\ fcQueue[j] = "deleted"
    /\ \/ deletedAfter[j] = "success"
       \/ \E h \in handled2 : h.message.source = j /\ h.message \in ccDeleted

\* a worker was stopped by an interrupt, or the tier-1 worker has used up the
\* batches the model gives it
WorkersStopped ==
    \/ polls = MaxPolls
    \/ w1pc = "KeyboardInterrupt"
    \/ w2pc = "KeyboardInterrupt"

\* C20 (as claimed): every job accepted onto the first-tier queue eventually
\* reaches a terminal outcome, as long as the workers are not stopped.
C20_EveryJobReachesTerminal ==
    \A j \in PipelineJobs : (fcQueue[j] = "visible") ~> (Terminal(j) \/ WorkersStopped)

====
